---- MODULE Spec2Model ----
(***************************************************************************)
(* Genomic data provisioning layer of ProCESS (GenomicDataStorage):        *)
(* retrieval, caching and validation of the reference genome, the SBS and  *)
(* indel signature files, the driver and passenger-CNA files and the       *)
(* germline directory.  Strings are TLA+ strings, read character by        *)
(* character with SubSeq; the file system is the set of existing paths.    *)
(***************************************************************************)
EXTENDS FiniteSets, Integers, Sequences, TLC

VARIABLES
    cfg,            \* the six *_src fields of GenomicDataStorage
    account,        \* COSMIC_account: NoAccount (nullptr) or an Account
    fs,             \* paths that exist on disk (files and directories)
    dirs,           \* the paths of fs that are directories
    R_timeout,      \* the process-wide R option "timeout"
    pc,             \* position of the constructor
    dl,             \* frame of the ::download_file call in progress
    download_list,  \* local list of retrieve_signatures
    cursor,         \* position of the loop over download_list
    log,            \* external calls of the current construction, in order
    error,          \* the exception that ended the construction, or NoError
    nconstr,        \* constructions started so far
    start,          \* file system, timeout and previous outcome when the construction began
    prev_ok,        \* the previous construction returned successfully
    germline_storage, \* GenomicDataStorage::germline_storage (its directory)
    contents,       \* contents of the files the germline store reads and writes
    call            \* last direct call of a function or method, with its result

vars == <<cfg, account, fs, dirs, R_timeout, pc, dl, download_list, cursor,
          log, error, nconstr, start, prev_ok, germline_storage, contents,
          call>>

(***************************************************************************)
(* Bounds and inputs                                                       *)
(***************************************************************************)
MaxConstructions == 2
SmallTimeout == 60
LargeTimeout == 2000

TimeoutFloor == 1000

Kinds == {"reference", "SBS", "indel", "drivers", "passenger_CNAs", "germline"}

NoAccount == [username |-> "", password |-> "", null |-> TRUE]
SomeAccount == [username |-> "foo@bar.org", password |-> "pw", null |-> FALSE]

NoError == [kind |-> "none", what |-> "", file |-> ""]
NoDownload == [url |-> "", dst |-> "", timeout |-> 0, ret |-> ""]
\* what a call returns is a record named after the type of the value; Void
\* when the function returns nothing or throws
Void == [void |-> TRUE]
NoCall == [fn |-> "", arg |-> "", ret |-> Void, raised |-> "", via |-> ""]

\* GermlineStorage::GermlineStorage(): the default-constructed member
NoGermlineStorage == [directory |-> ""]

directory == "/D"

RefURLGz == "http://h/r.fa.gz"
RefLocal == "/l/r.fa"
RefMissing == "/m/r.fa"
RefURLFa == "http://h/r.fa"
RefURLFasta == "https://h/d/r.fasta"
RefURLBz2 == "ftp://h/r.fa.bz2"
RefURLZip == "http://h/r.zip"
RefURLQuery == "http://h/r.fa.gz?x=1"
RefURLCached == "http://h/reference.fasta"
SBSCosmic == "https://cancer.sanger.ac.uk/s"
SBSPlain == "https://h/s.txt"
SBSLocal == "/l/s.txt"
SBSMissing == "/m/s.txt"
IDCosmic == "https://cancer.sanger.ac.uk/i"
IDPlain == "ftp://h/i.txt"
IDLocal == "/l/i.txt"
IDMissing == "/m/i.txt"
DriversURL == "http://h/d.csv"
DriversLocal == "/l/d.csv"
DriversMissing == "/m/d.csv"
PassengerURL == "http://h/p.csv"
PassengerLocal == "/l/p.csv"
PassengerMissing == "/m/p.csv"
GermlineURL == "http://h/g.tar"
DriversOtherURL == "https://o/d2.csv"
PassengerOtherURL == "ftp://o/p2.csv"
GermlineOtherURL == "https://o/g2.tar"
GermlineLocal == "/l/g"
GermlineMissing == "/m/g"

(***************************************************************************)
(* String helpers                                                          *)
(***************************************************************************)
Char(s, i) == SubSeq(s, i, i)

Max(a, b) == IF a >= b THEN a ELSE b

\* std::string::find(p) == 0
StartsWith(s, p) == Len(s) >= Len(p) /\ SubSeq(s, 1, Len(p)) = p

\* std::string::find_last_of(c) + 1, 0-based; npos + 1 wraps to 0
find_last_of_plus1(s, c) ==
    LET hits == {i \in 1..Len(s) : Char(s, i) = c}
    IN  IF hits = {} THEN 0 ELSE CHOOSE i \in hits : \A j \in hits : j <= i

\* std::string::find(c), 1-based; 0 stands for npos
find_first(s, c) ==
    LET hits == {i \in 1..Len(s) : Char(s, i) = c}
    IN  IF hits = {} THEN 0 ELSE CHOOSE i \in hits : \A j \in hits : i <= j

\* std::string::substr(pos) with a 0-based pos
substr_from(s, pos) == SubSeq(s, pos + 1, Len(s))

\* std::filesystem::path::operator/ for a relative right operand
PathJoin(d, name) == d \o "/" \o name

protocols == {"ftp://", "http://", "https://"}

\* variant: a protocol found at any position counts
is_an_URL_anywhere(reference) ==
    \E protocol \in protocols :
       \E i \in 1..(Len(reference) - Len(protocol) + 1) :
          SubSeq(reference, i, i + Len(protocol) - 1) = protocol

is_an_URL(reference) ==
    \E protocol \in protocols : StartsWith(reference, protocol)

WordChars ==
    {"a","b","c","d","e","f","g","h","i","j","k","l","m","n","o","p","q","r",
     "s","t","u","v","w","x","y","z","A","B","C","D","E","F","G","H","I","J",
     "K","L","M","N","O","P","Q","R","S","T","U","V","W","X","Y","Z","0","1",
     "2","3","4","5","6","7","8","9","_","-"}

\* regex ^https://([a-zA-Z0-9_-]*).sanger.ac.uk, where '.' is any character
COSMIC_site_regex(src) ==
    /\ StartsWith(src, "https://")
    /\ \E k \in 0..Len(src) :
          /\ Len(src) >= 8 + k + 13
          /\ \A i \in 9..(8 + k) : Char(src, i) \in WordChars
          /\ SubSeq(src, 10 + k, 15 + k) = "sanger"
          /\ SubSeq(src, 17 + k, 18 + k) = "ac"
          /\ SubSeq(src, 20 + k, 21 + k) = "uk"

\* variant: only the first entry of the list is matched
signatures_from_COSMIC_first(list) ==
    Len(list) >= 1 /\ COSMIC_site_regex(list[1][1])

signatures_from_COSMIC(list) ==
    \E i \in 1..Len(list) : COSMIC_site_regex(list[i][1])

\* variant: the query string is kept in the file name
get_destination_path_keep_query(url) ==
    PathJoin(directory, substr_from(url, find_last_of_plus1(url, "/")))

get_destination_path(url) ==
    LET name_occurrence == find_last_of_plus1(url, "/")
        filename == substr_from(url, name_occurrence)
        question_occurrence == find_first(filename, "?")
    IN  IF question_occurrence # 0
        THEN PathJoin(directory, SubSeq(filename, 1, question_occurrence - 1))
        ELSE PathJoin(directory, filename)

\* std::string::substr(pos) throws std::out_of_range when pos > size()
substr_throws(s, pos) == pos > Len(s)

\* the exception get_destination_path raises for url, "" when it returns:
\* its catch block is entered only when a statement of the try block throws
get_destination_path_raised(url) ==
    IF substr_throws(url, find_last_of_plus1(url, "/"))
    THEN "\"" \o url \o "\" is not a valid URL."
    ELSE ""

\* variant: the two decompressors exchanged
decompressors_exchanged == [gz |-> "bunzip2", bz2 |-> "gunzip"]

decompressors == [gz |-> "gunzip", bz2 |-> "bunzip2"]

exists(path) == path \in fs
is_directory(path) == path \in dirs

(***************************************************************************)
(* Paths of the storage directory and path accessors                       *)
(***************************************************************************)
reference_storage_path == PathJoin(directory, "reference.fasta")

signatures_storage_path(T) ==
    IF T = "SBS" THEN PathJoin(directory, "SBS_signatures.txt")
                 ELSE PathJoin(directory, "indel_signatures.txt")

driver_mutations_storage_path == PathJoin(directory, "drivers.txt")

passenger_CNAs_storage_path == PathJoin(directory, "passenger_CNAs.txt")

germline_storage_path == PathJoin(directory, "germline_data")

get_signatures_src(T) == IF T = "SBS" THEN cfg.SBS ELSE cfg.indel

get_reference_path ==
    IF exists(cfg.reference) THEN cfg.reference ELSE reference_storage_path

get_signatures_path(T) ==
    IF exists(get_signatures_src(T)) THEN get_signatures_src(T)
                                     ELSE signatures_storage_path(T)

\* variant: the accessor ignores a local source
get_driver_mutations_path_cache_only == driver_mutations_storage_path

get_driver_mutations_path ==
    IF exists(cfg.drivers) THEN cfg.drivers ELSE driver_mutations_storage_path

get_passenger_CNAs_path ==
    IF exists(cfg.passenger_CNAs) THEN cfg.passenger_CNAs
                                  ELSE passenger_CNAs_storage_path

get_germline_path ==
    IF exists(cfg.germline) THEN cfg.germline ELSE germline_storage_path

\* files of a germline directory (GermlineStorage::get_file and the like)
get_file(d) == PathJoin(d, "germlines.csv")
get_population_file(d) == PathJoin(d, "population.csv")
get_population_descriptions_file(d) == PathJoin(d, "population_descriptions.csv")
get_alleles_file(d) == PathJoin(d, "alleles_per_chr.csv")

GermlineFiles(d) ==
    {get_file(d), get_population_file(d), get_population_descriptions_file(d),
     get_alleles_file(d)}

\* std::filesystem::path::parent_path
parent_path(p) ==
    LET n == find_last_of_plus1(p, "/")
    IN  IF n <= 1 THEN SubSeq(p, 1, n) ELSE SubSeq(p, 1, n - 1)

(***************************************************************************)
(* Control-flow helpers: each sets every variable                           *)
(***************************************************************************)
Event(op, a, b) == [op |-> op, a |-> a, b |-> b]

Goto(label) ==
    /\ pc' = label
    /\ UNCHANGED <<call, contents, germline_storage,
                   cfg, account, fs, dirs, R_timeout, dl, download_list,
                   cursor, log, error, nconstr, start, prev_ok>>

\* variant: the exception is swallowed and the constructor returns
Throw_swallowed(kind, what, file) ==
    /\ pc' = "done"
    /\ error' = [kind |-> kind, what |-> what, file |-> file]
    /\ UNCHANGED <<call, contents, germline_storage,
                   cfg, account, fs, dirs, R_timeout, dl, download_list,
                   cursor, log, nconstr, start, prev_ok>>

\* an exception leaves the constructor
Throw(kind, what, file) ==
    /\ pc' = "failed"
    /\ error' = [kind |-> kind, what |-> what, file |-> file]
    /\ UNCHANGED <<call, contents, germline_storage,
                   cfg, account, fs, dirs, R_timeout, dl, download_list,
                   cursor, log, nconstr, start, prev_ok>>

\* variant: the timeout is set to the floor whatever it was
raised_timeout_floor_only(timeout) == TimeoutFloor

\* the value download_file installs as R option "timeout" for the transfer
raised_timeout(timeout) == Max(TimeoutFloor, timeout)

\* ::download_file up to the call of download.file
download_file_begin(url, dest_filename, ret, next_cursor) ==
    /\ IF ~exists(parent_path(dest_filename))
       THEN /\ fs' = fs \cup {parent_path(dest_filename)}
            /\ dirs' = dirs \cup {parent_path(dest_filename)}
       ELSE UNCHANGED <<fs, dirs>>
    /\ dl' = [url |-> url, dst |-> dest_filename, timeout |-> R_timeout,
              ret |-> ret]
    /\ R_timeout' = raised_timeout(R_timeout)
    /\ log' = Append(log, Event("download", url, dest_filename))
    /\ cursor' = next_cursor
    /\ pc' = "transfer"
    /\ UNCHANGED <<call, contents, germline_storage,
                   cfg, account, download_list, error, nconstr, start,
                   prev_ok>>

\* the value download_file writes back to R option "timeout" after the transfer
reverted_timeout(frame) == frame.timeout

\* download.file returns: the file is on disk, the timeout is reverted
download_file_end ==
    /\ pc = "transfer"
    /\ fs' = fs \cup {dl.dst}
    /\ R_timeout' = reverted_timeout(dl)
    /\ pc' = dl.ret
    /\ dl' = NoDownload
    /\ UNCHANGED <<call, contents, germline_storage,
                   cfg, account, dirs, download_list, cursor, log, error,
                   nconstr, start, prev_ok>>

\* download.file raises an R error: the exception unwinds download_file before
\* the line that reverts the timeout; a partial file may be left behind
download_file_error ==
    /\ pc = "transfer"
    /\ \E partial \in BOOLEAN :
          fs' = IF partial THEN fs \cup {dl.dst} ELSE fs
    /\ pc' = "failed"
    /\ error' = [kind |-> "RemoteFetchFailed", what |-> dl.url, file |-> ""]
    /\ dl' = NoDownload
    /\ UNCHANGED <<call, contents, germline_storage,
                   cfg, account, dirs, R_timeout, download_list, cursor, log,
                   nconstr, start, prev_ok>>

(***************************************************************************)
(* GenomicDataStorage::GenomicDataStorage, step by step                    *)
(***************************************************************************)
\* variant: the constructor goes straight to the signatures
Construct_without_reference ==
    /\ pc \in {"idle", "done", "failed"}
    /\ nconstr < MaxConstructions
    /\ nconstr' = nconstr + 1
    /\ prev_ok' = (pc = "done")
    /\ fs' = fs \cup {directory}
    /\ dirs' = IF exists(directory) THEN dirs ELSE dirs \cup {directory}
    /\ start' = [fs |-> fs, timeout |-> R_timeout, after |-> error]
    /\ log' = << >>
    /\ error' = NoError
    /\ download_list' = << >>
    /\ cursor' = 0
    /\ dl' = NoDownload
    /\ pc' = "collect_SBS"
    /\ UNCHANGED <<call, contents, germline_storage,
                   cfg, account, R_timeout>>

\* constructor entry: member initialisation and create_directory(directory)
Construct ==
    /\ pc \in {"idle", "done", "failed"}
    /\ nconstr < MaxConstructions
    /\ nconstr' = nconstr + 1
    /\ prev_ok' = (pc = "done")
    /\ fs' = fs \cup {directory}
    /\ dirs' = IF exists(directory) THEN dirs ELSE dirs \cup {directory}
    /\ start' = [fs |-> fs, timeout |-> R_timeout, after |-> error]
    /\ log' = << >>
    /\ error' = NoError
    /\ download_list' = << >>
    /\ cursor' = 0
    /\ dl' = NoDownload
    /\ pc' = "retrieve_reference"
    /\ UNCHANGED <<call, contents, germline_storage,
                   cfg, account, R_timeout>>

\* variant: the cached reference is not looked up
retrieve_reference_no_cache ==
    /\ pc = "retrieve_reference"
    /\ IF ~is_an_URL(cfg.reference) /\ ~exists(cfg.reference)
       THEN Throw("MissingSource", cfg.reference, "")
       ELSE IF exists(cfg.reference)
       THEN Goto("collect_SBS")
       ELSE download_file_begin(cfg.reference,
                                get_destination_path(cfg.reference),
                                "reference_downloaded", cursor)

retrieve_reference ==
    /\ pc = "retrieve_reference"
    /\ IF ~is_an_URL(cfg.reference) /\ ~exists(cfg.reference)
       THEN Throw("MissingSource", cfg.reference, "")
       ELSE IF exists(get_reference_path)
       THEN Goto("collect_SBS")
       ELSE download_file_begin(cfg.reference,
                                get_destination_path(cfg.reference),
                                "reference_downloaded", cursor)

\* the test of retrieve_reference for an uncompressed download
is_uncompressed_suffix(suffix) == suffix = "fa" /\ suffix = "fasta"

\* retrieve_reference after download_file has returned
reference_downloaded ==
    /\ pc = "reference_downloaded"
    /\ LET downloaded_file == get_destination_path(cfg.reference)
           reference_filename == get_reference_path
           suffix == substr_from(downloaded_file,
                                 find_last_of_plus1(downloaded_file, "."))
       IN  IF is_uncompressed_suffix(suffix)
           THEN /\ fs' = (fs \ {downloaded_file}) \cup {reference_filename}
                /\ log' = Append(log, Event("rename", downloaded_file,
                                            reference_filename))
                /\ pc' = "collect_SBS"
                /\ UNCHANGED <<call, contents, germline_storage,
                               cfg, account, dirs, R_timeout, dl,
                               download_list, cursor, error, nconstr, start,
                               prev_ok>>
           ELSE IF suffix \notin DOMAIN decompressors
           THEN Throw("UnsupportedCompression", suffix, "")
           ELSE \* R.utils gunzip/bunzip2: writes destname and removes the
                \* input, or raises an error
                \E ok \in BOOLEAN :
                   /\ log' = Append(log, Event(decompressors[suffix],
                                               downloaded_file,
                                               reference_filename))
                   /\ IF ok
                      THEN /\ fs' = (fs \ {downloaded_file})
                                        \cup {reference_filename}
                           /\ pc' = "collect_SBS"
                           /\ error' = error
                      ELSE /\ fs' = fs
                           /\ pc' = "failed"
                           /\ error' = [kind |-> "DecompressionFailed",
                                        what |-> downloaded_file, file |-> ""]
                   /\ UNCHANGED <<call, contents, germline_storage,
                                  cfg, account, dirs, R_timeout, dl,
                                  download_list, cursor, nconstr, start,
                                  prev_ok>>

\* variant: no look-up of the cached signature file
collect_signatures_download_list_no_cache(T, list) ==
    LET dst_filename == signatures_storage_path(T)
        source == get_signatures_src(T)
    IN  IF exists(source) THEN list
        ELSE IF ~is_an_URL(source) THEN <<"throw">>
        ELSE Append(list, <<source, dst_filename>>)

\* collect_signatures_download_list<T>: the list it returns, or <<"throw">>
\* when it raises the missing-file error
collect_signatures_download_list(T, list) ==
    LET dst_filename == signatures_storage_path(T)
        source == get_signatures_src(T)
    IN  IF exists(dst_filename) THEN list
        ELSE IF exists(source) THEN list
        ELSE IF ~is_an_URL(source) THEN <<"throw">>
        ELSE Append(list, <<source, dst_filename>>)

collect(T, next) ==
    LET result == collect_signatures_download_list(T, download_list)
    IN  IF result = <<"throw">>
        THEN Throw("MissingSource", get_signatures_src(T), "")
        ELSE /\ download_list' = result
             /\ pc' = next
             /\ UNCHANGED <<call, contents, germline_storage,
                            cfg, account, fs, dirs, R_timeout, dl, cursor,
                            log, error, nconstr, start, prev_ok>>

collect_SBS == pc = "collect_SBS" /\ collect("SBS", "collect_ID")

collect_ID == pc = "collect_ID" /\ collect("indel", "retrieve_signatures")

\* variant: download_COSMIC without the test of the account
retrieve_signatures_no_account_test ==
    /\ pc = "retrieve_signatures"
    /\ IF signatures_from_COSMIC(download_list)
       THEN /\ pc' = "COSMIC_login"
            /\ UNCHANGED <<call, contents, germline_storage,
                           cfg, account, fs, dirs, R_timeout, dl,
                           download_list, cursor, log, error, nconstr,
                           start, prev_ok>>
       ELSE /\ pc' = "plain_loop"
            /\ cursor' = 1
            /\ UNCHANGED <<call, contents, germline_storage,
                           cfg, account, fs, dirs, R_timeout, dl,
                           download_list, log, error, nconstr, start, prev_ok>>

\* retrieve_signatures after the list is built, and the entry of download_COSMIC
retrieve_signatures ==
    /\ pc = "retrieve_signatures"
    /\ IF signatures_from_COSMIC(download_list)
       THEN IF account.null
            THEN Throw("AuthenticationRequired", "", "")
            ELSE /\ pc' = "COSMIC_login"
                 /\ UNCHANGED <<call, contents, germline_storage,
                                cfg, account, fs, dirs, R_timeout, dl,
                                download_list, cursor, log, error, nconstr,
                                start, prev_ok>>
       ELSE /\ pc' = "plain_loop"
            /\ cursor' = 1
            /\ UNCHANGED <<call, contents, germline_storage,
                           cfg, account, fs, dirs, R_timeout, dl,
                           download_list, log, error, nconstr, start, prev_ok>>

\* the loop of retrieve_signatures over ::download_file
plain_loop ==
    /\ pc = "plain_loop"
    /\ IF cursor > Len(download_list)
       THEN Goto("retrieve_drivers")
       ELSE download_file_begin(download_list[cursor][1],
                                download_list[cursor][2],
                                "plain_loop", cursor + 1)

\* the R function of download_COSMIC up to the check of the login response
COSMIC_login ==
    /\ pc = "COSMIC_login"
    /\ \E outcome \in {"no_rvest", "logged_in", "error_while_logging"} :
          IF outcome = "no_rvest"
          THEN Throw("MissingPackage", "rvest", "")
          ELSE /\ log' = Append(log, Event("login", account.username,
                                           account.password))
               /\ IF outcome = "logged_in"
                  THEN /\ pc' = "COSMIC_fetch"
                       /\ cursor' = 1
                       /\ error' = error
                  ELSE /\ pc' = "failed"
                       /\ cursor' = cursor
                       /\ error' = [kind |-> "WrongCredentials", what |-> "",
                                    file |-> ""]
               /\ UNCHANGED <<call, contents, germline_storage,
                              cfg, account, fs, dirs, R_timeout, dl,
                              download_list, nconstr, start, prev_ok>>

\* variant: the loop runs over d_list from its last entry to its first
COSMIC_fetch_last_first ==
    /\ pc = "COSMIC_fetch"
    /\ IF cursor > Len(download_list)
       THEN Goto("retrieve_drivers")
       ELSE LET url == download_list[Len(download_list) + 1 - cursor][1]
                dest_filename ==
                    download_list[Len(download_list) + 1 - cursor][2]
            IN  \E status_200 \in BOOLEAN :
                   /\ IF status_200
                      THEN /\ log' = log \o <<Event("fetch", url, ""),
                                              Event("writeBin", url,
                                                    dest_filename)>>
                           /\ fs' = fs \cup {dest_filename}
                           /\ cursor' = cursor + 1
                           /\ pc' = pc
                           /\ error' = error
                      ELSE /\ log' = Append(log, Event("fetch", url, ""))
                           /\ fs' = fs
                           /\ cursor' = cursor
                           /\ pc' = "failed"
                           /\ error' = [kind |-> "RemoteFetchFailed",
                                        what |-> url, file |-> ""]
                   /\ UNCHANGED <<call, contents, germline_storage,
                                  cfg, account, dirs, R_timeout, dl,
                                  download_list, nconstr, start, prev_ok>>

\* variant: every iteration of the loop logs in again
COSMIC_fetch_login_each ==
    /\ pc = "COSMIC_fetch"
    /\ IF cursor > Len(download_list)
       THEN Goto("retrieve_drivers")
       ELSE LET url == download_list[cursor][1]
                dest_filename == download_list[cursor][2]
            IN  /\ log' = log \o <<Event("login", account.username,
                                         account.password),
                                   Event("fetch", url, ""),
                                   Event("writeBin", url, dest_filename)>>
                /\ fs' = fs \cup {dest_filename}
                /\ cursor' = cursor + 1
                /\ UNCHANGED <<call, contents, germline_storage,
                               cfg, account, dirs, R_timeout, dl, pc, error,
                               download_list, nconstr, start, prev_ok>>

\* one iteration of the loop of the R function over d_list
COSMIC_fetch ==
    /\ pc = "COSMIC_fetch"
    /\ IF cursor > Len(download_list)
       THEN Goto("retrieve_drivers")
       ELSE LET url == download_list[cursor][1]
                dest_filename == download_list[cursor][2]
            IN  \E status_200 \in BOOLEAN :
                   /\ IF status_200
                      THEN /\ log' = log \o <<Event("fetch", url, ""),
                                              Event("writeBin", url,
                                                    dest_filename)>>
                           /\ fs' = fs \cup {dest_filename}
                           /\ cursor' = cursor + 1
                           /\ pc' = pc
                           /\ error' = error
                      ELSE /\ log' = Append(log, Event("fetch", url, ""))
                           /\ fs' = fs
                           /\ cursor' = cursor
                           /\ pc' = "failed"
                           /\ error' = [kind |-> "RemoteFetchFailed",
                                        what |-> url, file |-> ""]
                   /\ UNCHANGED <<call, contents, germline_storage,
                                  cfg, account, dirs, R_timeout, dl,
                                  download_list, nconstr, start, prev_ok>>

\* variant: no look-up of the cached copy
retrieve_drivers_always_download ==
    /\ pc = "retrieve_drivers"
    /\ IF exists(cfg.drivers)
       THEN Goto("retrieve_passenger_CNAs")
       ELSE IF ~is_an_URL(cfg.drivers) /\ ~exists(cfg.drivers)
       THEN Throw("MissingSource", cfg.drivers, "")
       ELSE download_file_begin(cfg.drivers, get_driver_mutations_path,
                                "retrieve_passenger_CNAs", cursor)

retrieve_drivers ==
    /\ pc = "retrieve_drivers"
    /\ IF exists(cfg.drivers)
       THEN Goto("retrieve_passenger_CNAs")
       ELSE IF ~is_an_URL(cfg.drivers) /\ ~exists(cfg.drivers)
       THEN Throw("MissingSource", cfg.drivers, "")
       ELSE IF exists(get_driver_mutations_path)
       THEN Goto("retrieve_passenger_CNAs")
       ELSE download_file_begin(cfg.drivers, get_driver_mutations_path,
                                "retrieve_passenger_CNAs", cursor)

\* variant: no test that the source is a URL
retrieve_passenger_CNAs_unchecked ==
    /\ pc = "retrieve_passenger_CNAs"
    /\ IF exists(cfg.passenger_CNAs)
       THEN Goto("retrieve_germline")
       ELSE IF exists(passenger_CNAs_storage_path)
       THEN Goto("retrieve_germline")
       ELSE download_file_begin(cfg.passenger_CNAs,
                                passenger_CNAs_storage_path,
                                "retrieve_germline", cursor)

retrieve_passenger_CNAs ==
    /\ pc = "retrieve_passenger_CNAs"
    /\ IF exists(cfg.passenger_CNAs)
       THEN Goto("retrieve_germline")
       ELSE IF ~is_an_URL(cfg.passenger_CNAs)
       THEN Throw("MissingSource", cfg.passenger_CNAs, "")
       ELSE IF exists(passenger_CNAs_storage_path)
       THEN Goto("retrieve_germline")
       ELSE download_file_begin(cfg.passenger_CNAs,
                                passenger_CNAs_storage_path,
                                "retrieve_germline", cursor)

\* variant: the cached copy counts only with its four files
retrieve_germline_whole_cache ==
    /\ pc = "retrieve_germline"
    /\ IF exists(cfg.germline)
       THEN Goto("GermlineStorage")
       ELSE IF ~is_an_URL(cfg.germline)
       THEN Throw("MissingSource", cfg.germline, "")
       ELSE IF GermlineFiles(germline_storage_path) \subseteq fs
       THEN Goto("GermlineStorage")
       ELSE download_file_begin(cfg.germline,
                                get_destination_path(cfg.germline),
                                "germline_downloaded", cursor)

retrieve_germline ==
    /\ pc = "retrieve_germline"
    /\ IF exists(cfg.germline)
       THEN Goto("GermlineStorage")
       ELSE IF ~is_an_URL(cfg.germline)
       THEN Throw("MissingSource", cfg.germline, "")
       ELSE IF exists(get_file(germline_storage_path))
       THEN Goto("GermlineStorage")
       ELSE download_file_begin(cfg.germline,
                                get_destination_path(cfg.germline),
                                "germline_downloaded", cursor)

\* what an archive may hold: the whole germline directory, a directory
\* lacking two of the required files, or nothing of use
ArchiveContents ==
    {{germline_storage_path} \cup GermlineFiles(germline_storage_path),
     {germline_storage_path, get_file(germline_storage_path),
      get_population_file(germline_storage_path)},
     {}}

\* retrieve_germline after download_file has returned: untar into directory
germline_downloaded ==
    /\ pc = "germline_downloaded"
    /\ LET downloaded_file == get_destination_path(cfg.germline)
       IN  /\ log' = Append(log, Event("untar", downloaded_file, directory))
           /\ \/ \E content \in ArchiveContents :
                    /\ fs' = fs \cup content
                    /\ dirs' = dirs \cup (content \cap {germline_storage_path})
                    /\ pc' = "GermlineStorage"
                    /\ error' = error
              \/ /\ pc' = "failed"
                 /\ error' = [kind |-> "ExtractionFailed",
                              what |-> downloaded_file, file |-> ""]
                 /\ UNCHANGED <<fs, dirs>>
           /\ UNCHANGED <<call, contents, germline_storage,
                          cfg, account, R_timeout, dl, download_list, cursor,
                          nconstr, start, prev_ok>>

\* variant: the directory is not validated
GermlineStorage_check_nothing(d) == NoError

\* GermlineStorage::GermlineStorage(directory): the error it raises, or NoError
GermlineStorage_check(d) ==
    IF ~exists(d) THEN [kind |-> "NotFound", what |-> d, file |-> ""]
    ELSE IF ~is_directory(d)
    THEN [kind |-> "NotADirectory", what |-> d, file |-> ""]
    ELSE IF ~exists(get_file(d))
    THEN [kind |-> "MissingFile", what |-> d, file |-> "germline.csv"]
    ELSE IF ~exists(get_population_file(d))
    THEN [kind |-> "MissingFile", what |-> d, file |-> "population.csv"]
    ELSE IF ~exists(get_population_descriptions_file(d))
    THEN [kind |-> "MissingFile", what |-> d,
          file |-> "population_descriptions.csv"]
    ELSE IF ~exists(get_alleles_file(d))
    THEN [kind |-> "MissingFile", what |-> d, file |-> "alleles_per_chr.csv"]
    ELSE NoError

\* the last statements of the constructor
GermlineStorage ==
    /\ pc = "GermlineStorage"
    /\ LET germline_path == get_germline_path
           raised == GermlineStorage_check(germline_path)
       IN  IF raised # NoError
           THEN Throw(raised.kind, raised.what, raised.file)
           ELSE /\ germline_storage' = [directory |-> germline_path]
                /\ pc' = "done"
                /\ UNCHANGED <<call, contents, cfg, account, fs, dirs,
                               R_timeout, dl, download_list, cursor, log,
                               error, nconstr, start, prev_ok>>

(***************************************************************************)
(* Initial states and specification                                        *)
(***************************************************************************)
Configs ==
    [reference : {RefURLGz, RefLocal, RefMissing},
     SBS : {SBSCosmic, SBSPlain, SBSLocal, SBSMissing},
     indel : {IDCosmic, IDPlain, IDLocal, IDMissing},
     drivers : {DriversURL, DriversLocal, DriversMissing},
     passenger_CNAs : {PassengerURL, PassengerLocal, PassengerMissing},
     germline : {GermlineURL, GermlineLocal, GermlineMissing}]

\* files the user keeps outside the storage directory
LocalFiles ==
    {"/l", RefLocal, SBSLocal, IDLocal, DriversLocal, PassengerLocal,
     GermlineLocal} \cup GermlineFiles(GermlineLocal)

\* what a dataset kind leaves in the storage directory once cached
CacheOf(kind) ==
    CASE kind = "reference" -> {reference_storage_path}
      [] kind = "SBS" -> {signatures_storage_path("SBS")}
      [] kind = "indel" -> {signatures_storage_path("indel")}
      [] kind = "drivers" -> {driver_mutations_storage_path}
      [] kind = "passenger_CNAs" -> {passenger_CNAs_storage_path}
      [] kind = "germline" -> {germline_storage_path}
                                 \cup GermlineFiles(germline_storage_path)

\* storage directories left by earlier runs: empty, one dataset, or all six
PreCached ==
    {K \in SUBSET Kinds : Cardinality(K) <= 1 \/ K = Kinds}

Init ==
    /\ cfg \in Configs
    /\ account \in {NoAccount, SomeAccount}
    /\ R_timeout \in {SmallTimeout, LargeTimeout}
    /\ \E K \in PreCached :
          /\ fs = LocalFiles \cup UNION {CacheOf(k) : k \in K}
                    \cup (IF K = {} THEN {} ELSE {directory})
          /\ dirs = {"/l", GermlineLocal}
                    \cup (IF K = {} THEN {} ELSE {directory})
                    \cup (IF "germline" \in K THEN {germline_storage_path}
                                              ELSE {})
    /\ pc = "idle"
    /\ dl = NoDownload
    /\ download_list = << >>
    /\ cursor = 0
    /\ log = << >>
    /\ error = NoError
    /\ nconstr = 0
    /\ start = [fs |-> fs, timeout |-> R_timeout, after |-> NoError]
    /\ prev_ok = FALSE
    /\ germline_storage = NoGermlineStorage
    /\ contents = << >>
    /\ call = NoCall

Next ==
    \/ Construct
    \/ retrieve_reference
    \/ reference_downloaded
    \/ collect_SBS
    \/ collect_ID
    \/ retrieve_signatures
    \/ plain_loop
    \/ COSMIC_login
    \/ COSMIC_fetch
    \/ retrieve_drivers
    \/ retrieve_passenger_CNAs
    \/ retrieve_germline
    \/ germline_downloaded
    \/ GermlineStorage
    \/ download_file_end
    \/ download_file_error

Spec == Init /\ [][Next]_vars

(***************************************************************************)
(* Constructions over the reference sources: every suffix the reference    *)
(* retrieval tells apart, the other datasets taken from remote sources     *)
(***************************************************************************)
ReferenceSources ==
    {RefURLGz, RefURLFa, RefURLFasta, RefURLBz2, RefURLZip, RefURLQuery,
     RefURLCached, RefLocal}

ReferenceConfigs ==
    [reference : ReferenceSources,
     SBS : {SBSCosmic, SBSLocal},
     indel : {IDPlain},
     drivers : {DriversURL},
     passenger_CNAs : {PassengerURL},
     germline : {GermlineURL}]

InitReference ==
    /\ cfg \in ReferenceConfigs
    /\ account \in {NoAccount, SomeAccount}
    /\ R_timeout \in {SmallTimeout, LargeTimeout}
    /\ fs = LocalFiles
    /\ dirs = {"/l", GermlineLocal}
    /\ pc = "idle"
    /\ dl = NoDownload
    /\ download_list = << >>
    /\ cursor = 0
    /\ log = << >>
    /\ error = NoError
    /\ nconstr = 0
    /\ start = [fs |-> fs, timeout |-> R_timeout, after |-> NoError]
    /\ prev_ok = FALSE
    /\ germline_storage = NoGermlineStorage
    /\ contents = << >>
    /\ call = NoCall

SpecReference == InitReference /\ [][Next]_vars

(***************************************************************************)
(* Vocabulary of the properties                                            *)
(***************************************************************************)
Src(kind) ==
    CASE kind = "reference" -> cfg.reference
      [] kind = "SBS" -> cfg.SBS
      [] kind = "indel" -> cfg.indel
      [] kind = "drivers" -> cfg.drivers
      [] kind = "passenger_CNAs" -> cfg.passenger_CNAs
      [] kind = "germline" -> cfg.germline

StoragePath(kind) ==
    CASE kind = "reference" -> reference_storage_path
      [] kind = "SBS" -> signatures_storage_path("SBS")
      [] kind = "indel" -> signatures_storage_path("indel")
      [] kind = "drivers" -> driver_mutations_storage_path
      [] kind = "passenger_CNAs" -> passenger_CNAs_storage_path
      [] kind = "germline" -> germline_storage_path

Accessor(kind) ==
    CASE kind = "reference" -> get_reference_path
      [] kind = "SBS" -> get_signatures_path("SBS")
      [] kind = "indel" -> get_signatures_path("indel")
      [] kind = "drivers" -> get_driver_mutations_path
      [] kind = "passenger_CNAs" -> get_passenger_CNAs_path
      [] kind = "germline" -> get_germline_path

\* the constructor position at which the retrieval of a kind decides
StepOf(kind) ==
    CASE kind = "reference" -> "retrieve_reference"
      [] kind = "SBS" -> "collect_SBS"
      [] kind = "indel" -> "collect_ID"
      [] kind = "drivers" -> "retrieve_drivers"
      [] kind = "passenger_CNAs" -> "retrieve_passenger_CNAs"
      [] kind = "germline" -> "retrieve_germline"

Ops(l, ops) == {i \in 1..Len(l) : l[i].op \in ops}

\* external retrievals of a given source recorded in a log
RetrievalsOf(l, source) ==
    {i \in Ops(l, {"download", "fetch", "writeBin"}) : l[i].a = source}

InProgress == pc \notin {"idle", "done", "failed"}

AllRemote == \A kind \in Kinds : is_an_URL(Src(kind))

(***************************************************************************)
(* C1: a source that is an existing local path when the construction       *)
(* starts is never downloaded (plainly or through COSMIC), nothing is      *)
(* created for it under the storage directory, and after a successful      *)
(* construction its path accessor returns the source string itself.        *)
(***************************************************************************)
C1_LocalSourceShortCircuits ==
    \A kind \in Kinds :
        (nconstr >= 1 /\ Src(kind) \in start.fs) =>
            /\ RetrievalsOf(log, Src(kind)) = {}
            /\ (CacheOf(kind) \cap fs) \subseteq start.fs
            /\ (pc = "done" => Accessor(kind) = Src(kind))

C1_Witness ==
    /\ pc = "done"
    /\ Src("reference") \in start.fs
    /\ Src("drivers") \in start.fs
    /\ Src("germline") \in start.fs
    /\ Ops(log, {"download"}) # {}

(***************************************************************************)
(* C2: a construction that follows a successful one with the same          *)
(* directory and sources does not fail and makes no download, no COSMIC    *)
(* login or fetch, no decompression and no archive extraction.             *)
(***************************************************************************)
C2_SecondConstructionIdempotent ==
    (nconstr >= 2 /\ prev_ok) => (pc # "failed" /\ log = << >>)

C2_Witness ==
    /\ nconstr = 2
    /\ prev_ok
    /\ pc = "done"
    /\ AllRemote
    /\ start.fs \cap {Src(kind) : kind \in Kinds} = {}

(***************************************************************************)
(* C3: after a successful construction every path accessor returns a path  *)
(* that exists on disk: the source when the source exists locally, the     *)
(* fixed cache name under the storage directory otherwise.                 *)
(***************************************************************************)
C3_ResolvedPathsExist ==
    pc = "done" =>
        \A kind \in Kinds :
            /\ Accessor(kind) \in fs
            /\ Accessor(kind) =
                  IF Src(kind) \in fs THEN Src(kind) ELSE StoragePath(kind)

C3_Witness ==
    /\ pc = "done"
    /\ nconstr = 1
    /\ Accessor("reference") = "/D/reference.fasta"
    /\ Accessor("SBS") = SBSLocal
    /\ Accessor("germline") = "/D/germline_data"
    /\ "/D/germline_data" \notin start.fs

(***************************************************************************)
(* C4: for the reference, the drivers, the passenger CNAs and each         *)
(* signature file, when the source is not an existing local path and the   *)
(* cached copy exists, the retrieval reuses the copy: no download, no      *)
(* error (the URL test comes only after the cache look-up has missed).     *)
(***************************************************************************)
C4_CacheLookupBeforeURLTest ==
    [][\A kind \in Kinds \ {"germline"} :
          (pc = StepOf(kind) /\ Src(kind) \notin fs /\ StoragePath(kind) \in fs)
             => (pc' # "failed" /\ log' = log /\ fs' = fs)]_vars

(***************************************************************************)
(* C5: when the retrieval of a dataset finds its source neither an         *)
(* existing local path nor a URL, and nothing cached for it, the           *)
(* construction fails there with an error carrying the source string, the  *)
(* dataset is never downloaded, and such a construction never completes.   *)
(***************************************************************************)
Unobtainable(kind, files) ==
    /\ ~is_an_URL(Src(kind))
    /\ Src(kind) \notin files
    /\ CacheOf(kind) \cap files = {}

C5_MissingSourceFails ==
    [][/\ \A kind \in Kinds :
             (pc = StepOf(kind) /\ Unobtainable(kind, fs)) =>
                 /\ pc' = "failed"
                 /\ error' = [kind |-> "MissingSource", what |-> Src(kind),
                              file |-> ""]
                 /\ log' = log
                 /\ RetrievalsOf(log', Src(kind)) = {}
       /\ pc' = "done" =>
             \A kind \in Kinds : ~Unobtainable(kind, start'.fs)]_vars

C5_Witness ==
    /\ pc = "failed"
    /\ error = [kind |-> "MissingSource", what |-> GermlineMissing, file |-> ""]
    /\ Ops(log, {"download"}) # {}
    /\ RetrievalsOf(log, GermlineMissing) = {}

(***************************************************************************)
(* C6: a plain download starts its transfer with the timeout at            *)
(* max(1000, t), t being the timeout just before the call; the timeout     *)
(* keeps that value while the transfer runs, and it is t again once the    *)
(* download has completed without error.                                   *)
(***************************************************************************)
C6_TimeoutRaisedDuringTransfer ==
    [][/\ (pc # "transfer" /\ pc' = "transfer") =>
             /\ R_timeout' = Max(1000, R_timeout)
             /\ dl'.timeout = R_timeout
       /\ pc = "transfer" => R_timeout = Max(1000, dl.timeout)
       /\ (pc = "transfer" /\ pc' # "failed") => R_timeout' = dl.timeout]_vars

C6_Witness ==
    /\ pc = "retrieve_passenger_CNAs"
    /\ Ops(log, {"download"}) # {}
    /\ log[Len(log)].a = DriversURL
    /\ R_timeout = SmallTimeout
    /\ start.timeout = SmallTimeout

(***************************************************************************)
(* C7: once a construction has ended, successfully or with an error (a     *)
(* failed transfer included), the timeout has the value it had before the  *)
(* construction.                                                           *)
(***************************************************************************)
C7_TimeoutRestoredOnEveryExit ==
    pc \in {"done", "failed"} => R_timeout = start.timeout

(***************************************************************************)
(* C8: when an entry of the signature download list matches the COSMIC     *)
(* site pattern no entry is retrieved by the plain download routine and,   *)
(* once the signatures are retrieved, every entry was written by the       *)
(* authenticated session; when no entry matches, the authenticated path is *)
(* never entered and every entry is retrieved by the plain routine.        *)
(***************************************************************************)
SignaturesRetrieved ==
    pc \in {"retrieve_drivers", "retrieve_passenger_CNAs", "retrieve_germline",
            "germline_downloaded", "GermlineStorage", "done"}

Entries(list) == {list[i] : i \in 1..Len(list)}

HasCOSMIC(list) == \E e \in Entries(list) : COSMIC_site_regex(e[1])

Logged(op, e) == \E i \in Ops(log, {op}) : log[i].a = e[1] /\ log[i].b = e[2]

C8_WholeBatchOneRoute ==
    IF HasCOSMIC(download_list)
    THEN /\ \A e \in Entries(download_list) : ~Logged("download", e)
         /\ SignaturesRetrieved =>
               \A e \in Entries(download_list) : Logged("writeBin", e)
    ELSE /\ Ops(log, {"login", "fetch", "writeBin"}) = {}
         /\ pc \notin {"COSMIC_login", "COSMIC_fetch"}
         /\ SignaturesRetrieved =>
               \A e \in Entries(download_list) : Logged("download", e)

C8_Witness ==
    /\ pc = "retrieve_drivers"
    /\ Len(download_list) = 2
    /\ download_list[1][1] = SBSPlain
    /\ download_list[2][1] = IDCosmic
    /\ \A e \in Entries(download_list) : Logged("writeBin", e)

(***************************************************************************)
(* C9: with a COSMIC URL in the signature download list and no account,    *)
(* the construction fails with the credentials-required error: no login,   *)
(* no signature fetch, no write to a signature destination, and the        *)
(* drivers, passenger-CNA and germline retrievals are not started.         *)
(***************************************************************************)
C9_NoAccountFailsBeforeLogin ==
    [][(pc = "retrieve_signatures" /\ account.null /\ HasCOSMIC(download_list))
          => /\ pc' = "failed"
             /\ error'.kind = "AuthenticationRequired"
             /\ fs' = fs
             /\ Ops(log', {"login", "fetch", "writeBin"}) = {}
             /\ \A e \in Entries(download_list) :
                   e[2] \notin fs' /\ RetrievalsOf(log', e[1]) = {}
             /\ \A kind \in {"drivers", "passenger_CNAs", "germline"} :
                   RetrievalsOf(log', Src(kind)) = {}]_vars

C9_Witness ==
    /\ pc = "failed"
    /\ error.kind = "AuthenticationRequired"
    /\ account.null
    /\ Len(download_list) = 2
    /\ Ops(log, {"download"}) # {}

(***************************************************************************)
(* C10: each call of the signature collection appends the kind's entry to  *)
(* the download list exactly when the kind's cache file is absent, its     *)
(* source is not an existing local path and its source is a URL, whatever  *)
(* the other kind; so the credentials-required error needs a COSMIC URL in *)
(* the list, and never arises when every COSMIC signature is already       *)
(* cached or every signature source is a local file.                       *)
(***************************************************************************)
ToDownload(T) ==
    /\ StoragePath(T) \notin fs
    /\ Src(T) \notin fs
    /\ is_an_URL(Src(T))

C10_DownloadListMembership ==
    [][/\ \A T \in {"SBS", "indel"} :
             pc = StepOf(T) =>
                 download_list' =
                    IF ToDownload(T)
                    THEN Append(download_list, <<Src(T), StoragePath(T)>>)
                    ELSE download_list
       /\ error'.kind = "AuthenticationRequired" =>
             account.null /\ HasCOSMIC(download_list')
       /\ (\A T \in {"SBS", "indel"} :
              \/ ~COSMIC_site_regex(Src(T))
              \/ StoragePath(T) \in start'.fs
              \/ Src(T) \in start'.fs)
             => error'.kind # "AuthenticationRequired"]_vars

C10_Witness ==
    /\ pc = "done"
    /\ account.null
    /\ Src("SBS") = SBSCosmic
    /\ StoragePath("SBS") \in start.fs
    /\ download_list = << <<IDPlain, StoragePath("indel")>> >>

(***************************************************************************)
(* Direct calls of the string functions of a constructed storage           *)
(***************************************************************************)
\* a storage constructed from sources that are all local files
LocalConfig ==
    [reference |-> RefLocal, SBS |-> SBSLocal, indel |-> IDLocal,
     drivers |-> DriversLocal, passenger_CNAs |-> PassengerLocal,
     germline |-> GermlineLocal]

SchemeFragments ==
    {"", "ftp://", "http://", "https://", "ftp:/", "HTTP://", "file://", "x"}
HostFragments == {"", "h/", "h/d/", "a.http://"}
NameFragments == {"", "f", "r.fa.gz", "file.txt.gz"}
QueryFragments == {"", "?x=1", "?a/b", "?x?y"}

Strings ==
    {scheme \o host \o name \o query :
        scheme \in SchemeFragments, host \in HostFragments,
        name \in NameFragments, query \in QueryFragments}
    \cup {"https://host/dir/file.txt.gz?x=1"}

InitCalls ==
    /\ cfg = LocalConfig
    /\ account = NoAccount
    /\ R_timeout = SmallTimeout
    /\ fs = LocalFiles \cup {directory}
    /\ dirs = {"/l", GermlineLocal, directory}
    /\ pc = "done"
    /\ dl = NoDownload
    /\ download_list = << >>
    /\ cursor = 0
    /\ log = << >>
    /\ error = NoError
    /\ nconstr = 1
    /\ start = [fs |-> LocalFiles, timeout |-> R_timeout, after |-> NoError]
    /\ prev_ok = FALSE
    /\ germline_storage = [directory |-> GermlineLocal]
    /\ contents = << >>
    /\ call = NoCall

Returned(fn, arg, ret, raised) ==
    /\ call' = [fn |-> fn, arg |-> arg, ret |-> ret, raised |-> raised,
                via |-> ""]
    /\ UNCHANGED <<contents, germline_storage, cfg, account, fs, dirs,
                   R_timeout, pc, dl, download_list, cursor, log, error,
                   nconstr, start, prev_ok>>

\* both are called on a storage whose construction has returned
call_is_an_URL ==
    /\ pc = "done"
    /\ \E reference \in Strings :
          Returned("is_an_URL", reference, [bool |-> is_an_URL(reference)],
                   "")

call_get_destination_path ==
    /\ pc = "done"
    /\ \E url \in Strings :
          LET raised == get_destination_path_raised(url)
          IN  Returned("get_destination_path", url,
                       IF raised = ""
                       THEN [path |-> get_destination_path(url)]
                       ELSE Void,
                       raised)

NextCalls ==
    \/ call_is_an_URL
    \/ call_get_destination_path

SpecCalls == InitCalls /\ [][NextCalls]_vars

(***************************************************************************)
(* C13: is_an_URL(s) is true exactly when s begins with "ftp://",          *)
(* "http://" or "https://", for every s (the empty string and strings      *)
(* holding such a prefix further on included), and the call touches        *)
(* neither the file system nor the network.                                *)
(***************************************************************************)
Suffixes(s) == {SubSeq(s, k + 1, Len(s)) : k \in 0..Len(s)}

BeginsWithProtocol(s) ==
    \E rest \in Suffixes(s) :
       \/ s = "ftp://" \o rest
       \/ s = "http://" \o rest
       \/ s = "https://" \o rest

C13_IsAnURLPrefixTest ==
    [][call'.fn = "is_an_URL" =>
          /\ call'.ret = [bool |-> BeginsWithProtocol(call'.arg)]
          /\ fs' = fs /\ dirs' = dirs /\ log' = log
          /\ contents' = contents /\ R_timeout' = R_timeout]_vars

C13_Witness ==
    /\ call.fn = "is_an_URL"
    /\ call.arg = "xa.http://f"
    /\ call.ret = [bool |-> FALSE]

(***************************************************************************)
(* C14: get_destination_path(url) is the storage directory joined with the *)
(* text of url after its last '/', cut at the first '?' of that text when  *)
(* it has one; "https://host/dir/file.txt.gz?x=1" gives D/"file.txt.gz".   *)
(***************************************************************************)
HasChar(s, c) == \E i \in 1..Len(s) : Char(s, i) = c

Prefixes(s) == {SubSeq(s, 1, k) : k \in 0..Len(s)}

\* the text after the last '/' of a url that has one
LastSegment(url) ==
    CHOOSE t \in Suffixes(url) :
       /\ ~HasChar(t, "/")
       /\ \E head \in Prefixes(url) : url = head \o "/" \o t

\* t up to its first '?', the whole of t when it has none
BeforeQuery(t) ==
    CHOOSE u \in Prefixes(t) :
       /\ ~HasChar(u, "?")
       /\ \/ u = t
          \/ \E rest \in Suffixes(t) : t = u \o "?" \o rest

C14_DestinationIsLastSegment ==
    (call.fn = "get_destination_path" /\ HasChar(call.arg, "/")) =>
       /\ call.raised = ""
       /\ call.ret = [path |-> directory \o "/"
                                  \o BeforeQuery(LastSegment(call.arg))]

C14_Witness ==
    /\ call.fn = "get_destination_path"
    /\ call.arg = "https://host/dir/file.txt.gz?x=1"
    /\ call.ret = [path |-> "/D/file.txt.gz"]
    /\ call.raised = ""

(***************************************************************************)
(* C15: for a url holding no '/', get_destination_path fails with an       *)
(* invalid-URL error that carries the url, and returns no path.            *)
(***************************************************************************)
C15_NoSlashIsInvalidURL ==
    (call.fn = "get_destination_path" /\ ~HasChar(call.arg, "/")) =>
       /\ call.ret = Void
       /\ call.raised = "\"" \o call.arg \o "\" is not a valid URL."

(***************************************************************************)
(* C11: a freshly downloaded reference whose file name has suffix fa or    *)
(* fasta is renamed to reference.fasta in the storage directory, no        *)
(* decompressor is invoked, and the reference retrieval succeeds.          *)
(***************************************************************************)
DownloadedReference == get_destination_path(cfg.reference)

DownloadedSuffix ==
    substr_from(DownloadedReference,
                find_last_of_plus1(DownloadedReference, "."))

CanonicalReference == PathJoin(directory, "reference.fasta")

C11_UncompressedReferenceRenamed ==
    [][(pc = "reference_downloaded" /\ DownloadedSuffix \in {"fa", "fasta"})
          => /\ CanonicalReference \in fs'
             /\ log' = Append(log, Event("rename", DownloadedReference,
                                         CanonicalReference))
             /\ pc' = "collect_SBS"]_vars

(***************************************************************************)
(* C12: a freshly downloaded reference with suffix gz is handed to gunzip, *)
(* one with suffix bz2 to bunzip2, each with the downloaded file as input  *)
(* and reference.fasta in the storage directory as output; any suffix      *)
(* other than gz, bz2, fa and fasta fails the construction with an error   *)
(* naming the suffix, and no decompressor is invoked.                      *)
(***************************************************************************)
C12_DecompressorBySuffix ==
    [][pc = "reference_downloaded" =>
          /\ DownloadedSuffix = "gz" =>
                log' = Append(log, Event("gunzip", DownloadedReference,
                                         CanonicalReference))
          /\ DownloadedSuffix = "bz2" =>
                log' = Append(log, Event("bunzip2", DownloadedReference,
                                         CanonicalReference))
          /\ DownloadedSuffix \notin {"gz", "bz2", "fa", "fasta"} =>
                /\ pc' = "failed"
                /\ error' = [kind |-> "UnsupportedCompression",
                             what |-> DownloadedSuffix, file |-> ""]
                /\ log' = log]_vars

C12_Witness ==
    /\ pc = "collect_SBS"
    /\ DownloadedSuffix = "bz2"
    /\ Logged("bunzip2", <<PathJoin(directory, "r.fa.bz2"),
                           CanonicalReference>>)
    /\ CanonicalReference \in fs

(***************************************************************************)
(* GermlineStorage: construction over a directory, get_subject,            *)
(* get_alleles_per_chromosome, build_germline and get_germline             *)
(***************************************************************************)
MaxRows == 2

Subjects == {"s1", "s2", "s3"}

\* data rows of population.csv: name, population, super-population, gender
SubjectRows ==
    {<<"s1", "p1", "sp1", "male">>, <<"s1", "p2", "sp2", "female">>,
     <<"s2", "p1", "sp1", "female">>, <<"s3", "p2", "sp2", "other">>}

Populations == UNION {[1..n -> SubjectRows] : n \in 0..MaxRows}

\* alleles_per_chr.csv: header row and data rows
AllelesTable ==
    [header |-> <<"chr", "male", "female">>,
     rows |-> << <<"1", "2", "2">>, <<"X", "1", "2">> >>]

\* what RACES::Archive::Binary::Out::save puts in a file for the current
\* format, and the files its reader rejects
CurrentVersion == "current"
Archive(descr, version, data) ==
    [descr |-> descr, version |-> version, data |-> data]

NoGermline == [subject |-> "", num_of_alleles |-> << >>]

get_binary_file(d, subject_name) ==
    PathJoin(d, "germline_" \o subject_name \o ".dat")

\* the message of the exception GermlineStorage(directory) throws
GermlineStorage_what(raised) ==
    LET head == "Designed germline mutations directory \"" \o raised.what
    IN  CASE raised.kind = "NotFound" -> head \o "\" does not exist."
          [] raised.kind = "NotADirectory" -> head \o "\" is not a directory."
          [] raised.kind = "MissingFile" ->
                head \o "\" does not contains the file \"" \o raised.file
                     \o "\"."
          [] OTHER -> ""

GermlineSubject(row) ==
    [name |-> row[1], population |-> row[2], super_population |-> row[3],
     gender |-> row[4]]

\* variant: the last row with the name is returned
get_subject_last(d, subject_name) ==
    LET rows == contents[get_population_file(d)]
        hits == {i \in 1..Len(rows) : rows[i][1] = subject_name}
    IN  IF hits = {}
        THEN [raised |-> "Germline subject \"" \o subject_name
                            \o "\" not available.",
              ret |-> Void]
        ELSE [raised |-> "",
              ret |-> GermlineSubject(
                         rows[CHOOSE i \in hits : \A j \in hits : j <= i])]

\* GermlineStorage::get_subject: the subject it returns or the message of
\* the exception it throws
get_subject(d, subject_name) ==
    LET rows == contents[get_population_file(d)]
        hits == {i \in 1..Len(rows) : rows[i][1] = subject_name}
    IN  IF hits = {}
        THEN [raised |-> "Germline subject \"" \o subject_name
                            \o "\" not available.",
              ret |-> Void]
        ELSE [raised |-> "",
              ret |-> GermlineSubject(
                         rows[CHOOSE i \in hits : \A j \in hits : i <= j])]

\* std::stoul on a string that begins with neither white space nor a sign:
\* the value of the longest prefix of decimal digits, or the exception
\* std::invalid_argument when the string does not begin with a digit
DigitChar(digit) == SubSeq("0123456789", digit + 1, digit + 1)

IsDigit(c) == \E digit \in 0..9 : DigitChar(digit) = c

DigitValue(c) == CHOOSE digit \in 0..9 : DigitChar(digit) = c

DigitPrefix(str) ==
    CHOOSE n \in 0..Len(str) :
       /\ \A i \in 1..n : IsDigit(SubSeq(str, i, i))
       /\ n < Len(str) => ~IsDigit(SubSeq(str, n + 1, n + 1))

RECURSIVE DecimalValue(_)
DecimalValue(digits) ==
    IF Len(digits) = 0
    THEN 0
    ELSE 10 * DecimalValue(SubSeq(digits, 1, Len(digits) - 1))
           + DigitValue(SubSeq(digits, Len(digits), Len(digits)))

stoul(str) ==
    IF DigitPrefix(str) = 0
    THEN [raised |-> "stoul", value |-> 0]
    ELSE [raised |-> "", value |-> DecimalValue(SubSeq(str, 1,
                                                       DigitPrefix(str)))]

\* RACES::Mutations::GenomicPosition::stochr: the identifier of a chromosome
\* name; X and Y take the two largest values of the 8-bit ChromosomeId
stochr(chr_name) ==
    CASE chr_name = "X" -> [raised |-> "", value |-> 254]
      [] chr_name = "Y" -> [raised |-> "", value |-> 255]
      [] OTHER -> IF stoul(chr_name).raised = ""
                  THEN [raised |-> "", value |-> stoul(chr_name).value % 256]
                  ELSE [raised |-> "stoi", value |-> 0]

\* the exception the loop body throws on a data row, "" when it throws none
AllelesRowRaised(row, index) ==
    IF stochr(row[1]).raised # ""
    THEN stochr(row[1]).raised
    ELSE stoul(row[index]).raised

\* variant: a later row of a chromosome replaces the earlier one
get_alleles_per_chromosome_last(d, gender) ==
    LET table == contents[get_alleles_file(d)]
        header == table.header
        rows == table.rows
        found == {i \in 1..Len(header) : header[i] = gender}
    IN  IF found = {}
        THEN [raised |-> "Unknown gender " \o gender \o ".", ret |-> << >>]
        ELSE LET index == CHOOSE i \in found : \A j \in found : i <= j
                 bad == {r \in 1..Len(rows) :
                           AllelesRowRaised(rows[r], index) # ""}
             IN  IF bad # {}
                 THEN [raised |-> AllelesRowRaised(
                                     rows[CHOOSE r \in bad :
                                             \A q \in bad : r <= q], index),
                       ret |-> << >>]
                 ELSE [raised |-> "",
                       ret |-> [chr_id \in {stochr(rows[r][1]).value :
                                              r \in 1..Len(rows)} |->
                                  LET hits == {r \in 1..Len(rows) :
                                                 stochr(rows[r][1]).value
                                                    = chr_id}
                                      r == CHOOSE r \in hits :
                                              \A q \in hits : q <= r
                                  IN  stoul(rows[r][index]).value]]

\* GermlineStorage::get_alleles_per_chromosome: the map it returns or the
\* message of the exception it throws; std::map::insert keeps the entry a
\* key already has
get_alleles_per_chromosome(d, gender) ==
    LET table == contents[get_alleles_file(d)]
        header == table.header
        rows == table.rows
        found == {i \in 1..Len(header) : header[i] = gender}
    IN  IF found = {}
        THEN [raised |-> "Unknown gender " \o gender \o ".", ret |-> << >>]
        ELSE LET index == CHOOSE i \in found : \A j \in found : i <= j
                 bad == {r \in 1..Len(rows) :
                           AllelesRowRaised(rows[r], index) # ""}
             IN  IF bad # {}
                 THEN [raised |-> AllelesRowRaised(
                                     rows[CHOOSE r \in bad :
                                             \A q \in bad : r <= q], index),
                       ret |-> << >>]
                 ELSE [raised |-> "",
                       ret |-> [chr_id \in {stochr(rows[r][1]).value :
                                              r \in 1..Len(rows)} |->
                                  LET hits == {r \in 1..Len(rows) :
                                                 stochr(rows[r][1]).value
                                                    = chr_id}
                                      r == CHOOSE r \in hits :
                                              \A q \in hits : r <= q
                                  IN  stoul(rows[r][index]).value]]

\* GermlineStorage::build_germline up to the creation of the output
\* archive; load_ok tells whether GermlineMutations::load succeeds
build_germline(d, subject_name, load_ok) ==
    LET subject == get_subject(d, subject_name)
    IN  IF subject.raised # ""
        THEN [raised |-> subject.raised, ret |-> NoGermline]
        ELSE LET num_of_alleles ==
                     get_alleles_per_chromosome(d, subject.ret.gender)
             IN  IF num_of_alleles.raised # ""
                 THEN [raised |-> num_of_alleles.raised, ret |-> NoGermline]
                 ELSE IF ~load_ok
                 THEN [raised |-> "GermlineMutations::load failed",
                       ret |-> NoGermline]
                 ELSE [raised |-> "",
                       ret |-> [subject |-> subject.ret.name,
                                num_of_alleles |-> num_of_alleles.ret]]

\* raise_error(exception, file_description): the condition the caller
\* of get_germline receives
raise_error(exception, file_description) ==
    "CorruptCache: " \o file_description \o ": " \o exception

\* variant: the reader accepts every file
load_exception_none(archive, descr) == ""

\* RACES::Archive::Binary::In::load: the exception it throws, "" when the
\* file has the expected descriptor and version
load_exception(archive, descr) ==
    IF archive.descr # descr THEN "WrongFileFormatDescr"
    ELSE IF archive.version # CurrentVersion THEN "WrongFileFormatVersion"
    ELSE ""

\* via is the function that produced the result of the call
GermlineReturned(fn, arg, ret, raised, via) ==
    /\ call' = [fn |-> fn, arg |-> arg, ret |-> ret, raised |-> raised,
                via |-> via]
    /\ UNCHANGED <<cfg, account, dirs, R_timeout, pc, dl, download_list,
                   cursor, error, nconstr, start, prev_ok>>

\* GermlineStorage::GermlineStorage(directory), called directly
new_GermlineStorage ==
    \E d \in {GermlineLocal, get_file(GermlineLocal)} :
       LET raised == GermlineStorage_check(d)
       IN  /\ GermlineReturned("GermlineStorage", d, Void,
                               GermlineStorage_what(raised), "")
           /\ germline_storage' = IF raised = NoError
                                  THEN [directory |-> d]
                                  ELSE germline_storage
           /\ UNCHANGED <<fs, contents, log>>

call_get_subject ==
    /\ germline_storage # NoGermlineStorage
    /\ \E subject_name \in Subjects :
          LET subject == get_subject(germline_storage.directory,
                                     subject_name)
          IN  /\ GermlineReturned("get_subject", subject_name, subject.ret,
                                  subject.raised, "")
              /\ UNCHANGED <<fs, contents, log, germline_storage>>

\* variant: the output archive is opened before the germline is built
get_germline_archive_first ==
    /\ germline_storage # NoGermlineStorage
    /\ \E subject_name \in Subjects, load_ok \in BOOLEAN :
          LET d == germline_storage.directory
              bin_path == get_binary_file(d, subject_name)
          IN  IF ~exists(bin_path)
              THEN LET built == build_germline(d, subject_name, load_ok)
                   IN  /\ GermlineReturned("get_germline", subject_name,
                                           built.ret, built.raised,
                                           "build_germline")
                       /\ fs' = fs \cup {bin_path}
                       /\ contents' =
                             (bin_path :> Archive(IF built.raised = ""
                                                  THEN "germline" ELSE "",
                                                  CurrentVersion, built.ret))
                                @@ contents
                       /\ log' = IF built.raised = ""
                                 THEN Append(log, Event("save", bin_path,
                                                        built.ret))
                                 ELSE log
                       /\ UNCHANGED germline_storage
              ELSE LET ex == load_exception(contents[bin_path], "germline")
                   IN  /\ GermlineReturned(
                             "get_germline", subject_name,
                             IF ex = "" THEN contents[bin_path].data
                                        ELSE NoGermline,
                             IF ex = "" THEN ""
                                        ELSE raise_error(ex, "germline"),
                             "load")
                       /\ UNCHANGED <<fs, contents, log, germline_storage>>

\* variant: the germline is built whether or not the cache file exists
get_germline_rebuild ==
    /\ germline_storage # NoGermlineStorage
    /\ \E subject_name \in Subjects, load_ok \in BOOLEAN :
          LET d == germline_storage.directory
              bin_path == get_binary_file(d, subject_name)
              built == build_germline(d, subject_name, load_ok)
          IN  /\ GermlineReturned("get_germline", subject_name, built.ret,
                                  built.raised, "build_germline")
              /\ IF built.raised = ""
                 THEN /\ fs' = fs \cup {bin_path}
                      /\ contents' =
                            (bin_path :> Archive("germline", CurrentVersion,
                                                 built.ret)) @@ contents
                      /\ log' = Append(log, Event("save", bin_path,
                                                  built.ret))
                 ELSE UNCHANGED <<fs, contents, log>>
              /\ UNCHANGED germline_storage

\* GermlineStorage::get_germline
get_germline ==
    /\ germline_storage # NoGermlineStorage
    /\ \E subject_name \in Subjects, load_ok \in BOOLEAN :
          LET d == germline_storage.directory
              bin_path == get_binary_file(d, subject_name)
          IN  IF ~exists(bin_path)
              THEN LET built == build_germline(d, subject_name, load_ok)
                   IN  /\ GermlineReturned("get_germline", subject_name,
                                           built.ret, built.raised,
                                           "build_germline")
                       /\ IF built.raised = ""
                          THEN /\ fs' = fs \cup {bin_path}
                               /\ contents' =
                                     (bin_path :> Archive("germline",
                                                          CurrentVersion,
                                                          built.ret))
                                        @@ contents
                               /\ log' = Append(log, Event("save", bin_path,
                                                           built.ret))
                          ELSE UNCHANGED <<fs, contents, log>>
                       /\ UNCHANGED germline_storage
              ELSE LET ex == load_exception(contents[bin_path], "germline")
                   IN  /\ GermlineReturned(
                             "get_germline", subject_name,
                             IF ex = "" THEN contents[bin_path].data
                                        ELSE NoGermline,
                             IF ex = "" THEN ""
                                        ELSE raise_error(ex, "germline"),
                             "load")
                       /\ UNCHANGED <<fs, contents, log, germline_storage>>

\* a cache file gets replaced by one of another kind or of an older format
replace_cache ==
    \E subject_name \in Subjects :
       \E archive \in {Archive("other", CurrentVersion, NoGermline),
                       Archive("germline", "older", NoGermline)} :
          LET bin_path == get_binary_file(GermlineLocal, subject_name)
          IN  /\ exists(bin_path)
              /\ contents[bin_path].descr = "germline"
              /\ contents[bin_path].version = CurrentVersion
              /\ contents' = (bin_path :> archive) @@ contents
              /\ log' = Append(log, Event("replace", bin_path, archive))
              /\ UNCHANGED <<call, germline_storage, cfg, account, fs, dirs,
                             R_timeout, pc, dl, download_list, cursor, error,
                             nconstr, start, prev_ok>>

\* a germline built by an earlier session for a subject no longer listed
OldGermline == [subject |-> "s1", num_of_alleles |-> << >>]

CachesBefore ==
    {<< >>} \cup
    {get_binary_file(GermlineLocal, "s1") :> archive :
        archive \in {Archive("germline", CurrentVersion, OldGermline),
                     Archive("other", CurrentVersion, OldGermline),
                     Archive("germline", "older", OldGermline)}}

InitGermline ==
    /\ cfg = LocalConfig
    /\ account = NoAccount
    /\ R_timeout = SmallTimeout
    /\ \E present \in SUBSET GermlineFiles(GermlineLocal),
          there \in BOOLEAN, rows \in Populations, caches \in CachesBefore :
          /\ ~there => (present = {} /\ caches = << >>)
          /\ fs = {"/l"} \cup present \cup DOMAIN caches
                    \cup (IF there THEN {GermlineLocal} ELSE {})
          /\ dirs = {"/l"} \cup (IF there THEN {GermlineLocal} ELSE {})
          /\ contents = caches
                          @@ (get_population_file(GermlineLocal) :> rows)
                          @@ (get_alleles_file(GermlineLocal) :> AllelesTable)
    /\ pc = "idle"
    /\ dl = NoDownload
    /\ download_list = << >>
    /\ cursor = 0
    /\ log = << >>
    /\ error = NoError
    /\ nconstr = 0
    /\ start = [fs |-> fs, timeout |-> R_timeout, after |-> NoError]
    /\ prev_ok = FALSE
    /\ germline_storage = NoGermlineStorage
    /\ call = NoCall

NextGermline ==
    \/ new_GermlineStorage
    \/ call_get_subject
    \/ get_germline
    \/ replace_cache

SpecGermline == InitGermline /\ [][NextGermline]_vars

(***************************************************************************)
(* C16: GermlineStorage(directory) fails with an error naming the          *)
(* directory when the path does not exist or is not a directory; when one  *)
(* of germlines.csv, population.csv, population_descriptions.csv and       *)
(* alleles_per_chr.csv is absent it fails with an error naming the         *)
(* directory and that exact file name; with all four it succeeds.          *)
(***************************************************************************)
Contains(s, sub) ==
    \E i \in 1..(Len(s) - Len(sub) + 1) : SubSeq(s, i, i + Len(sub) - 1) = sub

RequiredFiles ==
    {"germlines.csv", "population.csv", "population_descriptions.csv",
     "alleles_per_chr.csv"}

Absent(d) == {f \in RequiredFiles : (d \o "/" \o f) \notin fs}

C16_GermlineStorageValidation ==
    call.fn = "GermlineStorage" =>
       LET d == call.arg
       IN  /\ (d \notin fs \/ d \notin dirs) =>
                 (call.raised # "" /\ Contains(call.raised, d))
           /\ (d \in fs /\ d \in dirs) =>
                 /\ \A f \in RequiredFiles :
                       Absent(d) = {f} =>
                          /\ Contains(call.raised, d)
                          /\ Contains(call.raised, "\"" \o f \o "\"")
                 /\ Absent(d) # {} => call.raised # ""
                 /\ Absent(d) = {} =>
                       (call.raised = "" /\ germline_storage.directory = d)

(***************************************************************************)
(* C17: over a valid directory, for every data row r of population.csv,    *)
(* get_subject(name of r) returns the record made of the first four        *)
(* fields of r; for a name that is the first field of no data row it       *)
(* fails with an error naming the subject.                                 *)
(***************************************************************************)
PopulationRows == contents[germline_storage.directory \o "/population.csv"]

RowRecord(r) ==
    [name |-> r[1], population |-> r[2], super_population |-> r[3],
     gender |-> r[4]]

UnknownSubjectFails ==
    (\A i \in 1..Len(PopulationRows) : PopulationRows[i][1] # call.arg) =>
       /\ call.raised # ""
       /\ Contains(call.raised, "\"" \o call.arg \o "\"")

C17_GetSubjectRoundTrip ==
    call.fn = "get_subject" =>
       /\ \A i \in 1..Len(PopulationRows) :
             PopulationRows[i][1] = call.arg =>
                /\ call.raised = ""
                /\ call.ret = RowRecord(PopulationRows[i])
       /\ UnknownSubjectFails

(***************************************************************************)
(* C17, amended: the same for every data row whose name is the first       *)
(* field of no earlier row: get_subject returns the first row carrying     *)
(* the name.                                                               *)
(***************************************************************************)
C17_GetSubjectFirstRow ==
    call.fn = "get_subject" =>
       /\ \A i \in 1..Len(PopulationRows) :
             (/\ PopulationRows[i][1] = call.arg
              /\ \A j \in 1..(i - 1) : PopulationRows[j][1] # call.arg) =>
                /\ call.raised = ""
                /\ call.ret = RowRecord(PopulationRows[i])
       /\ UnknownSubjectFails

C17_Witness ==
    /\ call.fn = "get_subject"
    /\ call.arg = "s1"
    /\ PopulationRows = << <<"s1", "p2", "sp2", "female">>,
                           <<"s1", "p1", "sp1", "male">> >>
    /\ call.ret = [name |-> "s1", population |-> "p2",
                   super_population |-> "sp2", gender |-> "female"]

(***************************************************************************)
(* C18: for a subject without germline_<subject>.dat, the first            *)
(* get_germline(subject) builds the germline and writes the cache file in  *)
(* the germline directory; every later get_germline(subject), as long as   *)
(* that file is intact, loads it without invoking the build and returns    *)
(* the value the first call returned.                                      *)
(***************************************************************************)
CacheFile(subject) ==
    germline_storage.directory \o "/germline_" \o subject \o ".dat"

\* the step is a return of get_germline(subject), not a change of a file
\* made from outside
GetGermlineStep(subject) ==
    /\ call'.fn = "get_germline"
    /\ call'.arg = subject
    /\ ~(Len(log') = Len(log) + 1 /\ log'[Len(log')].op = "replace")

C18_GermlineBuiltOnceThenLoaded ==
    [][\A subject \in Subjects :
          GetGermlineStep(subject) =>
             /\ CacheFile(subject) \notin fs =>
                   /\ call'.via = "build_germline"
                   /\ call'.raised = "" =>
                         /\ CacheFile(subject) \in fs'
                         /\ contents'[CacheFile(subject)] =
                               Archive("germline", CurrentVersion, call'.ret)
                         /\ log' = Append(log, Event("save",
                                                     CacheFile(subject),
                                                     call'.ret))
             /\ \A i \in Ops(log, {"save"}) :
                   (/\ log[i].a = CacheFile(subject)
                    /\ CacheFile(subject) \in fs
                    /\ contents[CacheFile(subject)] =
                          Archive("germline", CurrentVersion, log[i].b)) =>
                      /\ call'.via = "load"
                      /\ call'.raised = ""
                      /\ call'.ret = log[i].b
                      /\ fs' = fs /\ contents' = contents /\ log' = log]_vars

C18_Witness ==
    /\ call.fn = "get_germline"
    /\ call.via = "load"
    /\ call.raised = ""
    /\ \E i \in Ops(log, {"save"}) :
          /\ log[i].a = CacheFile(call.arg)
          /\ log[i].b = call.ret
    /\ call.ret.subject = call.arg

(***************************************************************************)
(* C19: when germline_<subject>.dat exists but its format descriptor or    *)
(* its format version does not match, get_germline(subject) raises an      *)
(* error to the caller, does not invoke the build, and leaves the cache    *)
(* file as it is, neither deleted nor rewritten.                           *)
(***************************************************************************)
Mismatching(path) ==
    \/ contents[path].descr # "germline"
    \/ contents[path].version # CurrentVersion

C19_CorruptCacheRaisesNoRebuild ==
    [][\A subject \in Subjects :
          (/\ GetGermlineStep(subject)
           /\ CacheFile(subject) \in fs
           /\ Mismatching(CacheFile(subject))) =>
             /\ call'.raised # ""
             /\ call'.via # "build_germline"
             /\ fs' = fs
             /\ contents' = contents
             /\ log' = log]_vars

C19_Witness ==
    /\ call.fn = "get_germline"
    /\ call.raised # ""
    /\ call.via = "load"
    /\ CacheFile(call.arg) \in fs
    /\ contents[CacheFile(call.arg)].version = "older"
    /\ \E i \in Ops(log, {"save"}) : log[i].a = CacheFile(call.arg)

(***************************************************************************)
(* C20: a construction runs its steps strictly in the order: create the    *)
(* storage directory if absent, reference, signatures (one batch),         *)
(* drivers, passenger CNAs, germline, GermlineStorage over the resolved    *)
(* germline path; a step starts only when the previous one has completed,  *)
(* and the download of each dataset is attempted at most once per          *)
(* construction.                                                           *)
(***************************************************************************)
KindRank(kind) ==
    CASE kind = "reference" -> 1
      [] kind \in {"SBS", "indel"} -> 2
      [] kind = "drivers" -> 3
      [] kind = "passenger_CNAs" -> 4
      [] kind = "germline" -> 5

KindOf(source) == CHOOSE kind \in Kinds : Src(kind) = source

\* the step a construction is in: 1 to 5 the retrievals in the order above,
\* 6 the GermlineStorage, 7 returned; 0 when no construction is running
Phase ==
    CASE pc = "transfer" -> KindRank(KindOf(dl.url))
      [] pc \in {"retrieve_reference", "reference_downloaded"} -> 1
      [] pc \in {"collect_SBS", "collect_ID", "retrieve_signatures",
                 "plain_loop", "COSMIC_login", "COSMIC_fetch"} -> 2
      [] pc = "retrieve_drivers" -> 3
      [] pc = "retrieve_passenger_CNAs" -> 4
      [] pc \in {"retrieve_germline", "germline_downloaded"} -> 5
      [] pc = "GermlineStorage" -> 6
      [] pc = "done" -> 7
      [] OTHER -> 0

Attempts(l) == Ops(l, {"download", "fetch"})

C20_StepsInOrderNoRetry ==
    [][/\ nconstr' # nconstr =>
             (directory \in fs' /\ Phase' = 1 /\ log' = << >>)
       /\ (InProgress /\ pc' # "failed") => Phase' \in {Phase, Phase + 1}
       /\ pc' = "done" => germline_storage'.directory = Accessor("germline")
       /\ \A i \in Attempts(log') :
             /\ \A j \in Attempts(log') : log'[j].a = log'[i].a => j = i
             /\ \A j \in Attempts(log') :
                   i < j => KindRank(KindOf(log'[i].a))
                               <= KindRank(KindOf(log'[j].a))
             /\ i > Len(log) => KindRank(KindOf(log'[i].a)) = Phase]_vars

C20_Witness ==
    /\ pc = "done"
    /\ AllRemote
    /\ \A kind \in Kinds :
          Cardinality({i \in Attempts(log) : log[i].a = Src(kind)}) = 1

sources_file == PathJoin(directory, "sources.csv")

\* variant: the resolved local paths are written
sources_lines_resolved ==
    <<"reference" \o "\t" \o get_reference_path,
      "indel" \o "\t" \o get_signatures_path("indel"),
      "SBS" \o "\t" \o get_signatures_path("SBS"),
      "drivers" \o "\t" \o get_driver_mutations_path,
      "passenger_CNAs" \o "\t" \o get_passenger_CNAs_path,
      "germline" \o "\t" \o get_germline_path>>

\* the lines save_sources streams into the file, each ended by std::endl
sources_lines ==
    <<"reference" \o "\t" \o cfg.reference,
      "indel" \o "\t" \o cfg.indel,
      "SBS" \o "\t" \o cfg.SBS,
      "drivers" \o "\t" \o cfg.drivers,
      "passenger_CNAs" \o "\t" \o cfg.passenger_CNAs,
      "germline" \o "\t" \o cfg.germline>>

\* std::ofstream of(path) creates or truncates the file
save_sources ==
    /\ pc = "done"
    /\ fs' = fs \cup {sources_file}
    /\ contents' = (sources_file :> sources_lines) @@ contents
    /\ call' = [fn |-> "save_sources", arg |-> "", ret |-> Void,
                raised |-> "", via |-> ""]
    /\ UNCHANGED <<germline_storage, cfg, account, dirs, R_timeout, pc, dl,
                   download_list, cursor, log, error, nconstr, start,
                   prev_ok>>

\* sources a construction can succeed with
ObtainableConfigs ==
    [reference : {RefURLGz, RefLocal},
     SBS : {SBSCosmic, SBSPlain, SBSLocal},
     indel : {IDCosmic, IDPlain, IDLocal},
     drivers : {DriversURL, DriversLocal},
     passenger_CNAs : {PassengerURL, PassengerLocal},
     germline : {GermlineURL, GermlineLocal}]

\* the storage right after its construction: every remote dataset is in
\* the storage directory; a sources.csv of an earlier storage may be there
InitSources ==
    /\ cfg \in ObtainableConfigs
    /\ account = SomeAccount
    /\ R_timeout = SmallTimeout
    /\ \E stale \in BOOLEAN :
          /\ fs = LocalFiles \cup {directory}
                    \cup UNION {CacheOf(kind) :
                                  kind \in {k \in Kinds : Src(k) \notin
                                                            LocalFiles}}
                    \cup (IF stale THEN {sources_file} ELSE {})
          /\ contents = IF stale
                        THEN sources_file :> <<"reference" \o "\t" \o "old">>
                        ELSE << >>
    /\ dirs = {"/l", GermlineLocal, directory}
                \cup (IF cfg.germline = GermlineLocal THEN {}
                      ELSE {germline_storage_path})
    /\ pc = "done"
    /\ dl = NoDownload
    /\ download_list = << >>
    /\ cursor = 0
    /\ log = << >>
    /\ error = NoError
    /\ nconstr = 1
    /\ start = [fs |-> fs, timeout |-> R_timeout, after |-> NoError]
    /\ prev_ok = FALSE
    /\ germline_storage = [directory |-> get_germline_path]
    /\ call = NoCall

NextSources == save_sources

SpecSources == InitSources /\ [][NextSources]_vars

(***************************************************************************)
(* C22: save_sources() writes sources.csv in the storage directory with    *)
(* exactly six lines, one per dataset kind, each made of the kind, a tab   *)
(* and the source string as it was passed to the constructor, not the      *)
(* resolved local path; calling it again leaves the same content; no       *)
(* other file and no field of the storage changes.                         *)
(***************************************************************************)
WrittenLines == contents[directory \o "/sources.csv"]

C22_SaveSourcesManifest ==
    [][call'.fn = "save_sources" =>
          /\ (directory \o "/sources.csv") \in fs'
          /\ Len(WrittenLines') = 6
          /\ \A kind \in Kinds :
                \E i \in 1..6 :
                   /\ WrittenLines'[i] = kind \o "\t" \o Src(kind)
                   /\ \A j \in 1..6 :
                         StartsWith(WrittenLines'[j], kind \o "\t") => j = i
          /\ call.fn = "save_sources" => contents' = contents
          /\ fs' \ {directory \o "/sources.csv"}
                = fs \ {directory \o "/sources.csv"}
          /\ \A path \in DOMAIN contents \ {directory \o "/sources.csv"} :
                contents'[path] = contents[path]
          /\ cfg' = cfg /\ account' = account /\ dirs' = dirs
          /\ germline_storage' = germline_storage]_vars

C22_Witness ==
    /\ call.fn = "save_sources"
    /\ AllRemote
    /\ start.fs \cap {directory \o "/sources.csv"} # {}
    /\ WrittenLines[1] = "reference" \o "\t" \o RefURLGz
    /\ Accessor("reference") # RefURLGz

(***************************************************************************)
(* Constructions on the same storage directory with other remote sources   *)
(***************************************************************************)
RemoteConfig ==
    [reference |-> RefURLGz, SBS |-> SBSCosmic, indel |-> IDCosmic,
     drivers |-> DriversURL, passenger_CNAs |-> PassengerURL,
     germline |-> GermlineURL]

OtherRemoteConfig ==
    [reference |-> RefURLBz2, SBS |-> SBSPlain, indel |-> IDPlain,
     drivers |-> DriversOtherURL, passenger_CNAs |-> PassengerOtherURL,
     germline |-> GermlineOtherURL]

\* the caller passes other sources to the next construction
OtherSources ==
    /\ pc \in {"done", "failed"}
    /\ cfg' \in {RemoteConfig, OtherRemoteConfig} \ {cfg}
    /\ UNCHANGED <<call, contents, germline_storage, account, fs, dirs,
                   R_timeout, pc, dl, download_list, cursor, log, error,
                   nconstr, start, prev_ok>>

InitOtherSources ==
    /\ cfg = RemoteConfig
    /\ account \in {NoAccount, SomeAccount}
    /\ R_timeout \in {SmallTimeout, LargeTimeout}
    /\ fs = LocalFiles
    /\ dirs = {"/l", GermlineLocal}
    /\ pc = "idle"
    /\ dl = NoDownload
    /\ download_list = << >>
    /\ cursor = 0
    /\ log = << >>
    /\ error = NoError
    /\ nconstr = 0
    /\ start = [fs |-> fs, timeout |-> R_timeout, after |-> NoError]
    /\ prev_ok = FALSE
    /\ germline_storage = NoGermlineStorage
    /\ contents = << >>
    /\ call = NoCall

NextOtherSources ==
    \/ Next
    \/ OtherSources

SpecOtherSources == InitOtherSources /\ [][NextOtherSources]_vars

(***************************************************************************)
(* C23: a remote dataset counts as cached when its fixed-name file exists  *)
(* under the storage directory, whatever the source URL: a construction    *)
(* given another remote URL for a kind whose cache file exists reuses the  *)
(* file and downloads nothing for that kind.                               *)
(***************************************************************************)
FixedName(kind) ==
    CASE kind = "reference" -> "/D/reference.fasta"
      [] kind = "SBS" -> "/D/SBS_signatures.txt"
      [] kind = "indel" -> "/D/indel_signatures.txt"
      [] kind = "drivers" -> "/D/drivers.txt"
      [] kind = "passenger_CNAs" -> "/D/passenger_CNAs.txt"
      [] kind = "germline" -> "/D/germline_data/germlines.csv"

C23_CacheHitWhateverTheURL ==
    [][/\ \A kind \in Kinds :
             (/\ pc = StepOf(kind)
              /\ is_an_URL(Src(kind))
              /\ FixedName(kind) \in fs) =>
                /\ log' = log /\ fs' = fs /\ download_list' = download_list
                /\ pc' \notin {"failed", "transfer"}
       /\ \A i \in Attempts(log') :
             i > Len(log) =>
                \A kind \in Kinds :
                   log'[i].a = Src(kind) => FixedName(kind) \notin start.fs
      ]_vars

C23_Witness ==
    /\ cfg = OtherRemoteConfig
    /\ nconstr = 2
    /\ prev_ok
    /\ pc = "done"
    /\ log = << >>

(***************************************************************************)
(* C24: when a plain download of a signature, driver or passenger-CNA file *)
(* fails after a file was created at the cache path of that dataset, the   *)
(* file stays, and the next construction with the same configuration takes *)
(* it as a cache hit: it does not download that dataset again.             *)
(***************************************************************************)
PlainKinds == {"SBS", "indel", "drivers", "passenger_CNAs"}

\* the construction failed downloading the dataset and left a file it created
PartialLeft(kind) ==
    /\ pc = "failed"
    /\ error.kind = "RemoteFetchFailed"
    /\ error.what = Src(kind)
    /\ StoragePath(kind) \in fs \ start.fs

\* the construction began on the file its predecessor left when it failed
AfterPartial(kind) ==
    /\ start.after.kind = "RemoteFetchFailed"
    /\ start.after.what = Src(kind)
    /\ StoragePath(kind) \in start.fs

C24_PartialFileIsACacheHit ==
    [][\A kind \in PlainKinds :
          /\ PartialLeft(kind) => (StoragePath(kind) \in fs' /\ cfg' = cfg)
          /\ (PartialLeft(kind) /\ nconstr' # nconstr) => AfterPartial(kind)'
          /\ AfterPartial(kind)' =>
                /\ StoragePath(kind) \in fs'
                /\ \A i \in Attempts(log') : log'[i].a # Src(kind)
                /\ ~(pc' = "transfer" /\ dl'.url = Src(kind))
      ]_vars

C24_Witness ==
    /\ nconstr = 2
    /\ pc = "done"
    /\ AfterPartial("drivers")
    /\ \A i \in Attempts(log) : log[i].a # Src("drivers")
    /\ Attempts(log) # {}

(***************************************************************************)
(* C25: the authenticated COSMIC download logs in exactly once per batch,  *)
(* before every fetch; when the login response carries the error marker,   *)
(* the wrong-credentials error is raised before any queued file is fetched *)
(* and before any signature destination is written.                        *)
(***************************************************************************)
Logins == Ops(log, {"login"})

Fetches == Ops(log, {"fetch", "writeBin"})

C25_OneLoginBeforeFetches ==
    /\ Cardinality(Logins) <= 1
    /\ \A i \in Fetches : \E j \in Logins : j < i
    /\ (\/ pc = "COSMIC_fetch"
        \/ SignaturesRetrieved /\ HasCOSMIC(download_list)) =>
          Cardinality(Logins) = 1
    /\ error.kind = "WrongCredentials" =>
          /\ pc = "failed"
          /\ Logins = {Len(log)}
          /\ Fetches = {}
          /\ \A e \in Entries(download_list) : e[2] \notin fs

C25_Witness ==
    /\ error.kind = "WrongCredentials"
    /\ Len(download_list) = 2
    /\ Logins # {}
    /\ signatures_storage_path("SBS") \notin fs
    /\ signatures_storage_path("indel") \notin fs

(***************************************************************************)
(* C26: the authenticated COSMIC download fetches the queued files in list *)
(* order, SBS before indel; when the status of a file is not 200 an error  *)
(* naming its URL is raised, the destination of that file is not written,  *)
(* no later file is fetched, and the files written for earlier entries of  *)
(* the batch stay on disk.                                                 *)
(***************************************************************************)
\* the URLs fetched so far, in the order of the calls
FetchedURLs == SelectSeq(log, LAMBDA e : e.op = "fetch")

WrittenBin == SelectSeq(log, LAMBDA e : e.op = "writeBin")

\* the loop over d_list stopped on a status other than 200
FetchFailed ==
    /\ pc = "failed"
    /\ error.kind = "RemoteFetchFailed"
    /\ log # << >>
    /\ log[Len(log)].op = "fetch"

C26_FetchInOrderStopAtFailure ==
    /\ (Len(download_list) = 2) =>
          /\ download_list[1] = <<cfg.SBS, signatures_storage_path("SBS")>>
          /\ download_list[2] = <<cfg.indel, signatures_storage_path("indel")>>
    /\ Len(FetchedURLs) <= Len(download_list)
    /\ \A k \in 1..Len(FetchedURLs) : FetchedURLs[k].a = download_list[k][1]
    /\ \A k \in 1..Len(WrittenBin) :
          /\ WrittenBin[k].a = download_list[k][1]
          /\ WrittenBin[k].b = download_list[k][2]
          /\ download_list[k][2] \in fs
    /\ FetchFailed =>
          LET n == Len(FetchedURLs)
          IN  /\ error.what = download_list[n][1]
              /\ Len(WrittenBin) = n - 1
              /\ download_list[n][2] \notin fs
              /\ log[Len(log)] = Event("fetch", download_list[n][1], "")
              /\ \A k \in (n + 1)..Len(download_list) :
                    download_list[k][2] \notin fs
    /\ (~FetchFailed /\ pc # "COSMIC_fetch") =>
          Len(WrittenBin) = Len(FetchedURLs)

C26_Witness ==
    /\ FetchFailed
    /\ Len(download_list) = 2
    /\ error.what = cfg.indel
    /\ signatures_storage_path("SBS") \in fs \ start.fs
    /\ signatures_storage_path("indel") \notin fs

(***************************************************************************)
(* GermlineStorage::get_alleles_per_chromosome called on a validated       *)
(* germline directory, over alleles_per_chr.csv files of up to MaxRows     *)
(* data rows                                                               *)
(***************************************************************************)
AllelesHeader == <<"chr", "male", "female">>

\* data rows: chromosome name, count for male, count for female
AllelesRows ==
    {<<"1", "2", "2">>, <<"X", "1", "2">>, <<"1", "1", "3">>,
     <<"2", "2", "n">>, <<"Y", "10", "0">>}

AllelesTables ==
    {[header |-> AllelesHeader, rows |-> rows] :
        rows \in UNION {[1..n -> AllelesRows] : n \in 0..MaxRows}}

Genders == {"male", "female", "other", "chr"}

call_get_alleles_per_chromosome ==
    /\ germline_storage # NoGermlineStorage
    /\ \E gender \in Genders :
          LET alleles == get_alleles_per_chromosome(
                            germline_storage.directory, gender)
          IN  /\ GermlineReturned("get_alleles_per_chromosome", gender,
                                  IF alleles.raised = ""
                                  THEN [map |-> alleles.ret]
                                  ELSE Void,
                                  alleles.raised, "")
              /\ UNCHANGED <<fs, contents, log, germline_storage>>

InitAlleles ==
    /\ cfg = LocalConfig
    /\ account = NoAccount
    /\ R_timeout = SmallTimeout
    /\ fs = {"/l", GermlineLocal} \cup GermlineFiles(GermlineLocal)
    /\ dirs = {"/l", GermlineLocal}
    /\ \E table \in AllelesTables :
          contents = (get_population_file(GermlineLocal) :> << >>)
                       @@ (get_alleles_file(GermlineLocal) :> table)
    /\ pc = "idle"
    /\ dl = NoDownload
    /\ download_list = << >>
    /\ cursor = 0
    /\ log = << >>
    /\ error = NoError
    /\ nconstr = 0
    /\ start = [fs |-> fs, timeout |-> R_timeout, after |-> NoError]
    /\ prev_ok = FALSE
    /\ germline_storage = [directory |-> GermlineLocal]
    /\ call = NoCall

NextAlleles == call_get_alleles_per_chromosome

SpecAlleles == InitAlleles /\ [][NextAlleles]_vars

(***************************************************************************)
(* C27: get_alleles_per_chromosome(gender) fails with an unknown-gender    *)
(* error if and only if gender does not occur in the header row of         *)
(* alleles_per_chr.csv; otherwise, for every data row, the returned map    *)
(* associates the chromosome identifier of the row with the count found in *)
(* that row at the column of the gender.                                   *)
(***************************************************************************)
AllelesCall == call.fn = "get_alleles_per_chromosome"

AllelesFile == contents[get_alleles_file(germline_storage.directory)]

InHeader(gender) ==
    \E i \in 1..Len(AllelesFile.header) : AllelesFile.header[i] = gender

Column(gender) ==
    CHOOSE i \in 1..Len(AllelesFile.header) :
       /\ AllelesFile.header[i] = gender
       /\ \A j \in 1..(i - 1) : AllelesFile.header[j] # gender

UnknownGenderIff ==
    (call.raised = "Unknown gender " \o call.arg \o ".")
        <=> ~InHeader(call.arg)

\* the statement as claimed
C27_AllelesOfEveryRow ==
    AllelesCall =>
       /\ UnknownGenderIff
       /\ InHeader(call.arg) =>
             /\ call.raised = ""
             /\ \A r \in 1..Len(AllelesFile.rows) :
                   LET row == AllelesFile.rows[r]
                   IN  /\ stochr(row[1]).value \in DOMAIN call.ret.map
                       /\ call.ret.map[stochr(row[1]).value]
                             = stoul(row[Column(call.arg)]).value

\* C27 as amended: the first row of a chromosome gives its count, and a
\* count that is not a number makes the call fail
C27_AllelesOfFirstRows ==
    AllelesCall =>
       /\ UnknownGenderIff
       /\ InHeader(call.arg) =>
             LET rows == AllelesFile.rows
                 index == Column(call.arg)
                 unparsed == {r \in 1..Len(rows) :
                                \/ stochr(rows[r][1]).raised # ""
                                \/ stoul(rows[r][index]).raised # ""}
             IN  IF unparsed # {}
                 THEN call.raised \in {"stoul", "stoi"} /\ call.ret = Void
                 ELSE /\ call.raised = ""
                      /\ DOMAIN call.ret.map =
                            {stochr(rows[r][1]).value : r \in 1..Len(rows)}
                      /\ \A r \in 1..Len(rows) :
                            (\A q \in 1..(r - 1) : rows[q][1] # rows[r][1]) =>
                               call.ret.map[stochr(rows[r][1]).value]
                                  = stoul(rows[r][index]).value

C27_Witness ==
    /\ AllelesCall
    /\ call.arg = "female"
    /\ AllelesFile.rows = << <<"1", "2", "2">>, <<"1", "1", "3">> >>
    /\ call.raised = ""
    /\ call.ret.map[1] = 2

(***************************************************************************)
(* C28: when the retrieval of the reference fails during a construction    *)
(* (download error, unsupported suffix or decompression error),            *)
(* reference.fasta does not exist in the storage directory afterwards      *)
(* unless it existed before that construction, whatever the reference URL, *)
(* one whose last path segment is "reference.fasta" included; so a later   *)
(* construction with the same configuration never takes the failed attempt *)
(* for a cache hit.                                                        *)
(***************************************************************************)
\* the exception comes from retrieve_reference
ReferenceFailure(e) ==
    \/ e.kind \in {"UnsupportedCompression", "DecompressionFailed"}
    \/ e.kind = "RemoteFetchFailed" /\ e.what = cfg.reference

C28_FailedReferenceLeavesNoCache ==
    /\ (pc = "failed" /\ ReferenceFailure(error)) =>
          (reference_storage_path \in fs =>
              reference_storage_path \in start.fs)
    /\ (/\ ReferenceFailure(start.after)
        /\ is_an_URL(cfg.reference)
        /\ Phase >= 2) =>
          \E i \in Attempts(log) : log[i].a = cfg.reference

(***************************************************************************)
(* C29: when germline_data under the storage directory holds germlines.csv *)
(* but lacks one of population.csv, population_descriptions.csv and        *)
(* alleles_per_chr.csv, every construction with a remote germline source   *)
(* skips the download and the extraction of the archive, fails at the      *)
(* validation of GermlineStorage and leaves germline_data as it was;       *)
(* repeating the construction never repairs the cache.                     *)
(***************************************************************************)
GermlineData == {germline_storage_path} \cup GermlineFiles(germline_storage_path)

IncompleteCache(files) ==
    /\ get_file(germline_storage_path) \in files
    /\ ~(GermlineFiles(germline_storage_path) \subseteq files)

\* the construction began on an incomplete cache with a remote source
OnIncompleteCache ==
    /\ nconstr >= 1
    /\ is_an_URL(cfg.germline)
    /\ IncompleteCache(start.fs)

C29_IncompleteGermlineCacheStays ==
    [][/\ OnIncompleteCache' =>
             /\ \A i \in Attempts(log') : log'[i].a # cfg.germline
             /\ Ops(log', {"untar"}) = {}
             /\ pc' \notin {"germline_downloaded", "done"}
             /\ fs' \cap GermlineData = start'.fs \cap GermlineData
       /\ (OnIncompleteCache /\ pc = "retrieve_germline") =>
             pc' = "GermlineStorage"
       /\ (OnIncompleteCache /\ pc = "GermlineStorage") =>
             /\ pc' = "failed"
             /\ error'.kind = "MissingFile"
             /\ error'.what = germline_storage_path
       /\ (OnIncompleteCache /\ nconstr' # nconstr) =>
             (OnIncompleteCache' /\ cfg' = cfg)
      ]_vars

C29_Witness ==
    /\ OnIncompleteCache
    /\ nconstr = 2
    /\ pc = "failed"
    /\ error.kind = "MissingFile"
    /\ start.after.kind = "MissingFile"
    /\ log = << >>

(***************************************************************************)
(* C30: when get_germline(subject) takes the build path and the build      *)
(* fails before the serialization starts (subject absent from              *)
(* population.csv, gender of the subject absent from the alleles header,   *)
(* or failure loading germlines.csv), no germline_<subject>.dat is         *)
(* created, so a later get_germline(subject) attempts the build again      *)
(* instead of reading a cache file.                                        *)
(***************************************************************************)
\* the last call was get_germline(subject) and its build threw
BuildFailed(subject) ==
    /\ call.fn = "get_germline"
    /\ call.arg = subject
    /\ call.via = "build_germline"
    /\ call.raised # ""

C30_FailedBuildLeavesNoCache ==
    [][\A subject \in Subjects :
          /\ (GetGermlineStep(subject) /\ BuildFailed(subject)') =>
                /\ CacheFile(subject) \notin fs'
                /\ fs' = fs
                /\ contents' = contents
                /\ log' = log
                /\ call'.ret = NoGermline
          /\ (GetGermlineStep(subject) /\ BuildFailed(subject)) =>
                call'.via = "build_germline"
          /\ BuildFailed(subject) => CacheFile(subject) \notin fs
      ]_vars

C30_Witness ==
    /\ BuildFailed("s3")
    /\ call.raised = "Unknown gender other."
    /\ CacheFile("s3") \notin fs
    /\ Ops(log, {"save"}) # {}

====
